---------------------------- MODULE Spec2Model ----------------------------
(***************************************************************************)
(* A model of mirror_page.py: the page mirror that fetches one HTML page,  *)
(* downloads the assets it references below <out_dir>/assets and rewrites  *)
(* the references to the public asset prefix.                              *)
(*                                                                         *)
(* Text is modelled character by character: a string is a sequence of      *)
(* one-character strings, so that parsing, joining, sanitising and path    *)
(* mapping are computed the way the program computes them.                 *)
(***************************************************************************)
EXTENDS Naturals, Sequences, FiniteSets

(***************************************************************************)
(* Bounds of the model.                                                    *)
(***************************************************************************)
MaxDocLen == 3
MaxRuns == 2
MaxPathLen == 4
MaxQueryLen == 2

(***************************************************************************)
(* Strings (str methods used by the program and by urllib / os.path).      *)
(***************************************************************************)
StartsWith(s, p) == Len(p) <= Len(s) /\ SubSeq(s, 1, Len(p)) = p

EndsWith(s, p) == Len(p) <= Len(s) /\ SubSeq(s, Len(s) - Len(p) + 1, Len(s)) = p

Take(s, n) == SubSeq(s, 1, n)

DropFrom(s, i) == SubSeq(s, i, Len(s))

RECURSIVE FindFrom(_, _, _)
FindFrom(s, c, i) ==
    IF i > Len(s) THEN 0
    ELSE IF s[i] = c THEN i
    ELSE FindFrom(s, c, i + 1)

\* str.find, 1-based; 0 when c does not occur
Find(s, c) == FindFrom(s, c, 1)

RECURSIVE RFindFrom(_, _, _)
RFindFrom(s, c, i) ==
    IF i = 0 THEN 0
    ELSE IF s[i] = c THEN i
    ELSE RFindFrom(s, c, i - 1)

\* str.rfind, 1-based; 0 when c does not occur
RFind(s, c) == RFindFrom(s, c, Len(s))

\* the first position from i on holding a character of cs; Len(s) + 1 when none
RECURSIVE FindAnyFrom(_, _, _)
FindAnyFrom(s, cs, i) ==
    IF i > Len(s) THEN Len(s) + 1
    ELSE IF s[i] \in cs THEN i
    ELSE FindAnyFrom(s, cs, i + 1)

FindAny(s, cs) == FindAnyFrom(s, cs, 1)

\* s cut at position i: what is before it and what is after it

\* s.split(c, 1) when c occurs, <<s, "">> otherwise
Partition(s, c) ==
    IF Find(s, c) = 0 THEN <<s, <<>>>>
    ELSE <<Take(s, Find(s, c) - 1), DropFrom(s, Find(s, c) + 1)>>

RECURSIVE Split(_, _)
Split(s, c) ==
    IF Find(s, c) = 0 THEN <<s>>
    ELSE <<Partition(s, c)[1]>> \o Split(Partition(s, c)[2], c)

RECURSIVE Join(_, _)
Join(segs, c) ==
    IF segs = <<>> THEN <<>>
    ELSE IF Len(segs) = 1 THEN segs[1]
    ELSE segs[1] \o <<c>> \o Join(Tail(segs), c)

RECURSIVE LStrip(_, _)
LStrip(s, cs) ==
    IF s /= <<>> /\ s[1] \in cs THEN LStrip(Tail(s), cs) ELSE s

RECURSIVE RStrip(_, _)
RStrip(s, cs) ==
    IF s /= <<>> /\ s[Len(s)] \in cs THEN RStrip(Take(s, Len(s) - 1), cs) ELSE s

Strip(s, cs) == RStrip(LStrip(s, cs), cs)

UpperAlpha ==
    <<"A", "B", "C", "D", "E", "F", "G", "H", "I", "J", "K", "L", "M",
      "N", "O", "P", "Q", "R", "S", "T", "U", "V", "W", "X", "Y", "Z">>

LowerAlpha ==
    <<"a", "b", "c", "d", "e", "f", "g", "h", "i", "j", "k", "l", "m",
      "n", "o", "p", "q", "r", "s", "t", "u", "v", "w", "x", "y", "z">>

Digits == {"0", "1", "2", "3", "4", "5", "6", "7", "8", "9"}

Letters == {UpperAlpha[i] : i \in 1..26} \cup {LowerAlpha[i] : i \in 1..26}

Whitespace == {" "}

LowerChar(c) ==
    IF \E i \in 1..26 : UpperAlpha[i] = c
    THEN LowerAlpha[CHOOSE i \in 1..26 : UpperAlpha[i] = c]
    ELSE c

Lower(s) == [i \in 1..Len(s) |-> LowerChar(s[i])]

(***************************************************************************)
(* urllib.parse, as the program uses it.  The parameter part (";") of a    *)
(* path is not modelled: no modelled URL holds a ";".                      *)
(***************************************************************************)
SchemeChars == Letters \cup Digits \cup {"+", "-", "."}


uses_relative ==
    {<<>>, <<"h", "t", "t", "p">>, <<"h", "t", "t", "p", "s">>, <<"f", "t", "p">>,
     <<"f", "i", "l", "e">>}

uses_netloc ==
    {<<>>, <<"h", "t", "t", "p">>, <<"h", "t", "t", "p", "s">>, <<"f", "t", "p">>,
     <<"f", "i", "l", "e">>}

\* urlsplit: the scheme, when the text before the first ":" is one
HasScheme(u, i) ==
    /\ i > 1
    /\ u[1] \in Letters
    /\ \A k \in 1..(i - 1) : u[k] \in SchemeChars

SplitScheme(u, scheme) ==
    IF HasScheme(u, Find(u, ":"))
    THEN [scheme |-> Lower(Take(u, Find(u, ":") - 1)),
          rest |-> DropFrom(u, Find(u, ":") + 1)]
    ELSE [scheme |-> scheme, rest |-> u]

\* urlsplit: the netloc, after "//" and up to the first of "/", "?", "#"
NetlocEnd(after) == FindAny(after, {"/", "?", "#"})

SplitNetloc(p) ==
    IF StartsWith(p.rest, <<"/", "/">>)
    THEN [scheme |-> p.scheme,
          netloc |-> Take(DropFrom(p.rest, 3), NetlocEnd(DropFrom(p.rest, 3)) - 1),
          rest |-> DropFrom(DropFrom(p.rest, 3), NetlocEnd(DropFrom(p.rest, 3)))]
    ELSE [scheme |-> p.scheme, netloc |-> <<>>, rest |-> p.rest]

\* urlsplit: the fragment, after the first "#"
SplitFragment(p) ==
    [scheme |-> p.scheme, netloc |-> p.netloc,
     rest |-> Partition(p.rest, "#")[1], fragment |-> Partition(p.rest, "#")[2]]

\* urlsplit: the query, after the first "?"
SplitQuery(p) ==
    [scheme |-> p.scheme, netloc |-> p.netloc,
     path |-> Partition(p.rest, "?")[1], query |-> Partition(p.rest, "?")[2],
     fragment |-> p.fragment]

\* urlparse(url, scheme): the five components
urlparse(url, scheme) ==
    SplitQuery(SplitFragment(SplitNetloc(SplitScheme(LStrip(url, Whitespace), scheme))))

\* urlunparse(components)
WithNetloc(p) ==
    IF \/ p.netloc /= <<>>
       \/ (/\ p.scheme /= <<>>
           /\ p.scheme \in uses_netloc
           /\ ~StartsWith(p.path, <<"/", "/">>))
    THEN <<"/", "/">> \o p.netloc \o
         (IF p.path /= <<>> /\ p.path[1] /= "/" THEN <<"/">> \o p.path ELSE p.path)
    ELSE p.path

urlunparse(p) ==
    (IF p.scheme /= <<>> THEN p.scheme \o <<":">> ELSE <<>>)
    \o WithNetloc(p)
    \o (IF p.query /= <<>> THEN <<"?">> \o p.query ELSE <<>>)
    \o (IF p.fragment /= <<>> THEN <<"#">> \o p.fragment ELSE <<>>)

\* the dot-segment loop of urljoin
RECURSIVE ResolveSegments(_, _)
ResolveSegments(segments, resolved) ==
    IF segments = <<>> THEN resolved
    ELSE IF Head(segments) = <<".", ".">>
    THEN ResolveSegments(Tail(segments),
                         IF resolved = <<>> THEN <<>>
                         ELSE Take(resolved, Len(resolved) - 1))
    ELSE IF Head(segments) = <<".">>
    THEN ResolveSegments(Tail(segments), resolved)
    ELSE ResolveSegments(Tail(segments), Append(resolved, Head(segments)))

\* segments[1:-1] = filter(None, segments[1:-1])
FilterMiddle(segments) ==
    IF Len(segments) <= 2 THEN segments
    ELSE <<segments[1]>>
         \o SelectSeq(SubSeq(segments, 2, Len(segments) - 1), LAMBDA x : x /= <<>>)
         \o <<segments[Len(segments)]>>

\* base_parts: the base path without its last segment, unless that is empty
BaseParts(bp) == IF bp[Len(bp)] /= <<>> THEN Take(bp, Len(bp) - 1) ELSE bp

Segments(bpath, path) ==
    IF path[1] = "/" THEN Split(path, "/")
    ELSE FilterMiddle(BaseParts(Split(bpath, "/")) \o Split(path, "/"))

ResolvedText(segments) ==
    Join(IF segments[Len(segments)] \in {<<".">>, <<".", ".">>}
         THEN Append(ResolveSegments(segments, <<>>), <<>>)
         ELSE ResolveSegments(segments, <<>>),
         "/")

\* urljoin once both are parsed: url has the scheme of base and no netloc
\* "/" when nothing is left
ResolvedPath(segments) ==
    IF ResolvedText(segments) = <<>> THEN <<"/">> ELSE ResolvedText(segments)

JoinRelative(b, u, netloc) ==
    IF u.path = <<>>
    THEN urlunparse([scheme |-> u.scheme, netloc |-> netloc, path |-> b.path,
                     query |-> IF u.query = <<>> THEN b.query ELSE u.query,
                     fragment |-> u.fragment])
    ELSE urlunparse([scheme |-> u.scheme, netloc |-> netloc,
                     path |-> ResolvedPath(Segments(b.path, u.path)),
                     query |-> u.query, fragment |-> u.fragment])

JoinParsed(b, u, url) ==
    IF u.scheme /= b.scheme \/ u.scheme \notin uses_relative THEN url
    ELSE IF u.scheme \in uses_netloc /\ u.netloc /= <<>> THEN urlunparse(u)
    ELSE JoinRelative(b, u, IF u.scheme \in uses_netloc THEN b.netloc ELSE u.netloc)

JoinBase(b, url) == JoinParsed(b, urlparse(url, b.scheme), url)

\* urljoin(base, url)
urljoin(base, url) ==
    IF base = <<>> THEN url
    ELSE IF url = <<>> THEN base
    ELSE JoinBase(urlparse(base, <<>>), url)

(***************************************************************************)
(* os.path on POSIX.                                                       *)
(***************************************************************************)
basename(p) == DropFrom(p, RFind(p, "/") + 1)

DirHead(head) ==
    IF head /= <<>> /\ \E i \in 1..Len(head) : head[i] /= "/"
    THEN RStrip(head, {"/"}) ELSE head

dirname(p) == DirHead(Take(p, RFind(p, "/")))

\* os.path.splitext(p): <<root, ext>>; leading dots of the name are no extension
SplitExtAt(p, sepIndex, dotIndex) ==
    IF /\ dotIndex > sepIndex
       /\ \E k \in (sepIndex + 1)..(dotIndex - 1) : p[k] /= "."
    THEN <<Take(p, dotIndex - 1), DropFrom(p, dotIndex)>>
    ELSE <<p, <<>>>>

splitext(p) == SplitExtAt(p, RFind(p, "/"), RFind(p, "."))

\* the components pathlib keeps of a relative path text: no "" and no "."
PathParts(s) == SelectSeq(Split(s, "/"), LAMBDA x : x /= <<>> /\ x /= <<".">>)


(***************************************************************************)
(* URL Classifier.                                                         *)
(***************************************************************************)
ASSET_EXTENSIONS ==
    {<<".", "p", "n", "g">>,
     <<".", "j", "p", "g">>,
     <<".", "j", "p", "e", "g">>,
     <<".", "g", "i", "f">>,
     <<".", "w", "e", "b", "p">>,
     <<".", "s", "v", "g">>,
     <<".", "c", "s", "s">>,
     <<".", "j", "s">>,
     <<".", "w", "o", "f", "f">>,
     <<".", "w", "o", "f", "f", "2">>,
     <<".", "t", "t", "f">>,
     <<".", "o", "t", "f">>,
     <<".", "e", "o", "t">>,
     <<".", "i", "c", "o">>,
     <<".", "m", "p", "4">>,
     <<".", "w", "e", "b", "m">>}

RejectedSchemes ==
    {<<"d", "a", "t", "a">>, <<"m", "a", "i", "l", "t", "o">>,
     <<"j", "a", "v", "a", "s", "c", "r", "i", "p", "t">>}

HasAssetExtension(path) == \E e \in ASSET_EXTENSIONS : EndsWith(path, e)

Accepts(parsed) ==
    IF parsed.scheme \in RejectedSchemes THEN FALSE
    ELSE HasAssetExtension(Lower(parsed.path))

\* should_download_asset without lines 32-33: the scheme is not looked at
AcceptsAnyScheme(url) == HasAssetExtension(Lower(urlparse(url, <<>>).path))

should_download_asset(url) == Accepts(urlparse(url, <<>>))

(***************************************************************************)
(* Local Path Mapper.  A path is the sequence of its components, as        *)
(* pathlib keeps them: ".." stays, "" and "." are dropped.                 *)
(***************************************************************************)
SafeChars == Digits \cup Letters \cup {".", "_", "-"}

\* re.sub(r"[^0-9A-Za-z._-]", "_", query)
SafeQuery(query) ==
    [i \in 1..Len(query) |-> IF query[i] \in SafeChars THEN query[i] ELSE "_"]

\* the filename: "index" for none, ".bin" for no extension, the query
\* before the extension
Ext(name) ==
    IF splitext(name)[2] = <<>> THEN <<".", "b", "i", "n">> ELSE splitext(name)[2]

Named(name) ==
    IF splitext(name)[2] = <<>> THEN name \o <<".", "b", "i", "n">> ELSE name

FileName(name, query) ==
    IF query /= <<>>
    THEN splitext(Named(name))[1] \o <<"_">> \o SafeQuery(query) \o Ext(name)
    ELSE Named(name)

LocalName(path, query, base_dir) ==
    base_dir \o PathParts(dirname(LStrip(path, {"/"})))
             \o PathParts(FileName(IF basename(path) = <<>>
                                   THEN <<"i", "n", "d", "e", "x">>
                                   ELSE basename(path),
                                   query))

MapParsed(parsed, base_dir) ==
    LocalName(IF parsed.path = <<>>
              THEN <<"/", "u", "n", "n", "a", "m", "e", "d">>
              ELSE parsed.path,
              parsed.query, base_dir)

asset_local_name(asset_url, base_dir) ==
    MapParsed(urlparse(asset_url, <<>>), base_dir)

\* str(local_path.relative_to(assets_dir)).replace(os.sep, "/")
RelativeText(local_path, assets_dir) ==
    Join(SubSeq(local_path, Len(assets_dir) + 1, Len(local_path)), "/")


(***************************************************************************)
(* The arguments of the run and the places of the output tree.  Paths are  *)
(* relative to the working directory Cwd, as Path(out_dir) is.             *)
(***************************************************************************)
Origin_a == <<"h", "t", "t", "p", "s", ":", "/", "/", "a", ".", "i", "o">>

\* "https://a.io/page", the page that is served, and "https://a.io/gone"
U_page == Origin_a \o <<"/", "p", "a", "g", "e">>
U_gone == Origin_a \o <<"/", "g", "o", "n", "e">>

public_asset_prefix == <<"/", "a", "s", "s", "e", "t", "s">>
html_name == <<"i", "n", "d", "e", "x", ".", "h", "t", "m", "l">>

DotDot == <<".", ".">>

Cwd == << <<"w">> >>
out_dir == << <<"s", "i", "t", "e">> >>
assets_dir == out_dir \o << <<"a", "s", "s", "e", "t", "s">> >>
out_html_path == out_dir \o <<html_name>>

(***************************************************************************)
(* The file system: files maps the physical place of a file (its           *)
(* components from the root) to its content, dirs is the set of            *)
(* directories.  A path is resolved component by component, as the         *)
(* operating system does: ".." steps to the parent of the directory        *)
(* reached, and every directory on the way must exist.                     *)
(***************************************************************************)
EmptyFiles == [k \in {} |-> <<>>]

Parent(key) == IF key = <<>> THEN <<>> ELSE Take(key, Len(key) - 1)

RECURSIVE ResolveFrom(_, _, _)
ResolveFrom(cur, parts, ds) ==
    IF parts = <<>> THEN [ok |-> TRUE, key |-> cur]
    ELSE IF Head(parts) = DotDot THEN ResolveFrom(Parent(cur), Tail(parts), ds)
    ELSE IF Len(parts) = 1 THEN [ok |-> TRUE, key |-> Append(cur, Head(parts))]
    ELSE IF Append(cur, Head(parts)) \in ds
         THEN ResolveFrom(Append(cur, Head(parts)), Tail(parts), ds)
         ELSE [ok |-> FALSE, key |-> <<>>]

Resolve(parts, ds) == ResolveFrom(Cwd, parts, ds)

\* the physical place a path names once its directories exist
RECURSIVE PlaceFrom(_, _)
PlaceFrom(cur, parts) ==
    IF parts = <<>> THEN cur
    ELSE IF Head(parts) = DotDot THEN PlaceFrom(Parent(cur), Tail(parts))
    ELSE PlaceFrom(Append(cur, Head(parts)), Tail(parts))

Place(parts) == PlaceFrom(Cwd, parts)

\* Path.exists()
PathExists(parts, fs, ds) ==
    LET r == Resolve(parts, ds)
    IN  r.ok /\ (r.key \in DOMAIN fs \/ r.key \in ds)

\* Path.mkdir(parents=True, exist_ok=True): every prefix is made, in order;
\* a prefix that is a file raises
RECURSIVE MkDirs(_, _, _, _)
MkDirs(cur, parts, fs, ds) ==
    IF parts = <<>> THEN [ok |-> TRUE, dirs |-> ds]
    ELSE IF Head(parts) = DotDot THEN MkDirs(Parent(cur), Tail(parts), fs, ds)
    ELSE IF Append(cur, Head(parts)) \in DOMAIN fs THEN [ok |-> FALSE, dirs |-> ds]
    ELSE MkDirs(Append(cur, Head(parts)), Tail(parts), fs,
                ds \cup {Append(cur, Head(parts))})

ensure_dir(parts, fs, ds) == MkDirs(Cwd, parts, fs, ds)

Put(fs, key, content) ==
    [k \in DOMAIN fs \cup {key} |-> IF k = key THEN content ELSE fs[k]]

\* a file's content: the text of an asset (a sequence of CSS tokens, see
\* below) or the serialised document
Bytes(text) == [text |-> text, doc |-> <<>>]
Html(d) == [text |-> <<>>, doc |-> d]

(***************************************************************************)
(* CSS text is the sequence of what the pattern url\((.*?)\) splits it     *)
(* into: literal text, and matches with the text of their group 1.         *)
(***************************************************************************)
Lit(s) == [t |-> "lit", s |-> s]
Url(s) == [t |-> "url", s |-> s]

Quotes == {"'", "\""}

(***************************************************************************)
(* The remote side: what a GET of each URL answers.  Every other URL       *)
(* answers 404.  theme.css and bad.css fail on their first GET of a run    *)
(* and answer on the next; big.mp4 answers, and writing it fails midway.   *)
(***************************************************************************)
R_logo == <<"l", "o", "g", "o", ".", "p", "n", "g">>
R_logo_b == <<"/", "/", "b", ".", "i", "o", "/", "l", "o", "g", "o", ".", "p", "n", "g">>
R_data == <<"d", "a", "t", "a", ":", "a", ".", "p", "n", "g">>
R_gone_js == <<"g", "o", "n", "e", ".", "J", "S">>
R_style == <<"s", "t", "y", "l", "e", ".", "c", "s", "s">>
R_theme == <<"t", "h", "e", "m", "e", ".", "c", "s", "s">>
R_bad == <<"b", "a", "d", ".", "c", "s", "s">>
R_fonts == <<"/", "c", "s", "s", "?", "f", "=", "x">>
R_up == Origin_a \o <<"/", ".", ".", "/", ".", ".", "/", "u", "p", ".", "p", "n", "g">>
R_big == <<"b", "i", "g", ".", "m", "p", "4">>

G_bg == <<"b", "g", ".", "p", "n", "g">>
G_gone == <<"g", "o", "n", "e", ".", "p", "n", "g">>
G_frag == <<"'", "#", "f", "'">>
G_font == <<" ", "\"", "f", "o", "n", "t", ".", "w", "o", "f", "f", "\"", " ">>
G_data == <<"'", "d", "a", "t", "a", ":", "x", "'">>

U_logo == Origin_a \o <<"/">> \o R_logo
U_logo_b == <<"h", "t", "t", "p", "s", ":">> \o R_logo_b
U_style == Origin_a \o <<"/">> \o R_style
U_style2 == Origin_a \o public_asset_prefix \o <<"/">> \o R_style
U_theme == Origin_a \o <<"/">> \o R_theme
U_bad == Origin_a \o <<"/">> \o R_bad
U_bg == Origin_a \o <<"/">> \o G_bg
U_font == Origin_a \o <<"/", "f", "o", "n", "t", ".", "w", "o", "f", "f">>
U_big == Origin_a \o <<"/">> \o R_big

Flaky == {U_theme, U_bad}

Body(url) ==
    CASE url = U_logo -> <<Lit(<<"A">>)>>
      [] url = U_logo_b -> <<Lit(<<"B">>)>>
      [] url = U_bg -> <<Lit(<<"G">>)>>
      [] url = U_font -> <<Lit(<<"F">>)>>
      [] url = R_up -> <<Lit(<<"U">>)>>
      [] url = U_big -> <<Lit(<<"V">>)>>
      [] url = U_style -> <<Lit(<<"s">>), Url(G_bg)>>
      [] url = U_style2 -> <<Lit(<<"i">>), Url(R_style)>>
      [] url = U_theme -> <<Lit(<<"t">>), Url(G_font), Url(G_frag)>>
      [] url = U_bad -> <<Lit(<<"b">>), Url(G_bg), Url(G_gone)>>
      [] OTHER -> <<>>

Served == {U_logo, U_logo_b, U_bg, U_font, R_up, U_big, U_style, U_style2,
           U_theme, U_bad}

\* SESSION.get(url) followed by raise_for_status(), after the GETs of log
Respond(url, log) ==
    [ok |-> /\ url \in Served
            /\ (url \in Flaky =>
                    \E k \in 1..Len(log) : log[k].op = "GET" /\ log[k].url = url),
     heavy |-> url = U_big,
     text |-> Body(url)]


(***************************************************************************)
(* What a run did, in order: the log of the current run.                   *)
(*   VISIT  a loop body started on element idx                             *)
(*   GET    SESSION.get(url) was issued; key is the place the answer is    *)
(*          for, had tells whether that place existed when the reference   *)
(*          was met                                                        *)
(*   WRITE  the file at key was opened for writing                         *)
(*   FAIL   an except branch caught the failure of element idx             *)
(*   ABORT  an exception left process_page                                 *)
(*   HTML   the document was written                                       *)
(***************************************************************************)
Ev(op, at, idx, url, key, had) ==
    [op |-> op, at |-> at, idx |-> idx, url |-> url, key |-> key, had |-> had]

(***************************************************************************)
(* Asset Fetcher.  s is the state of the run: a record of pc, doc, todo,   *)
(* files, dirs, log, start_url and served.  The result holds ok = FALSE    *)
(* when download_file raises.                                              *)
(***************************************************************************)
Result(ok, fs, ds, lg) == [ok |-> ok, files |-> fs, dirs |-> ds, log |-> lg]

\* open(target, "wb") and f.write(resp.content)
WriteContent(fs, ds, lg, wrote, key, resp) ==
    IF key \in ds THEN Result(FALSE, fs, ds, lg)
    ELSE IF resp.heavy
    THEN Result(FALSE, Put(fs, key, Bytes(<<>>)), ds, Append(lg, wrote))
    ELSE Result(TRUE, Put(fs, key, Bytes(resp.text)), ds, Append(lg, wrote))

Fetched(s, made, got, wrote, resp) ==
    IF ~made.ok THEN Result(FALSE, s.files, made.dirs, s.log)
    ELSE IF ~resp.ok THEN Result(FALSE, s.files, made.dirs, Append(s.log, got))
    ELSE WriteContent(s.files, made.dirs, Append(s.log, got), wrote, got.key, resp)

download_file(s, idx, url, target) ==
    Fetched(s, ensure_dir(Parent(target), s.files, s.dirs),
            Ev("GET", s.pc, idx, url, Place(target),
               PathExists(target, s.files, s.dirs)),
            Ev("WRITE", s.pc, idx, url, Place(target),
               PathExists(target, s.files, s.dirs)),
            Respond(url, s.log))

\* public_prefix + "/" + str(local_path.relative_to(assets_dir))
PublicUrl(local_path) ==
    public_asset_prefix \o <<"/">> \o RelativeText(local_path, assets_dir)

(***************************************************************************)
(* CSS URL Rewriter: repl on each match, left to right.  ok = FALSE when   *)
(* a download raised: the matches before it have been handled.             *)
(***************************************************************************)
Replacement(local_path) == Url(<<"'">> \o PublicUrl(local_path) \o <<"'">>)

RECURSIVE rewrite_from(_, _, _, _, _)

\* repl once download_file has returned or raised
Downloaded(tokens, base_url, s, idx, out, local_path, d) ==
    IF ~d.ok
    THEN [ok |-> FALSE, css |-> out, files |-> d.files, dirs |-> d.dirs,
          log |-> d.log]
    ELSE rewrite_from(Tail(tokens), base_url, [s EXCEPT !.files = d.files, !.dirs = d.dirs, !.log = d.log],
                      idx,
                      Append(out, Replacement(local_path)))

\* repl from the mapped local path on
Localised(tokens, base_url, s, idx, out, full_url, local_path) ==
    IF PathExists(local_path, s.files, s.dirs)
    THEN rewrite_from(Tail(tokens), base_url, s, idx,
                      Append(out, Replacement(local_path)))
    ELSE Downloaded(tokens, base_url, s, idx, out, local_path,
                    download_file(s, idx, full_url, local_path))

\* repl from the resolved URL on
Joined(tokens, base_url, s, idx, out, raw, full_url) ==
    IF ~should_download_asset(full_url)
    THEN rewrite_from(Tail(tokens), base_url, s, idx, Append(out, Url(raw)))
    ELSE Localised(tokens, base_url, s, idx, out, full_url,
                   asset_local_name(full_url, assets_dir))

repl(tokens, base_url, s, idx, out, raw) ==
    IF raw = <<>> \/ StartsWith(raw, <<"d", "a", "t", "a", ":">>)
    THEN rewrite_from(Tail(tokens), base_url, s, idx, Append(out, Head(tokens)))
    ELSE Joined(tokens, base_url, s, idx, out, raw, urljoin(base_url, raw))

rewrite_from(tokens, base_url, s, idx, out) ==
    IF tokens = <<>>
    THEN [ok |-> TRUE, css |-> out, files |-> s.files, dirs |-> s.dirs,
          log |-> s.log]
    ELSE IF Head(tokens).t /= "url"
    THEN rewrite_from(Tail(tokens), base_url, s, idx, Append(out, Head(tokens)))
    ELSE repl(tokens, base_url, s, idx, out,
              Strip(Strip(Head(tokens).s, Whitespace), Quotes))

rewrite_css_urls(css_text, base_url, s, idx) ==
    rewrite_from(css_text, base_url, s, idx, <<>>)

(***************************************************************************)
(* The document: a sequence of elements in document order.  ref is the     *)
(* src or href attribute (<<>> when absent), rel the tokens of rel, style  *)
(* the style attribute and text the text of a <style> element.             *)
(***************************************************************************)
Elem(tag, ref, rel, style, text) ==
    [tag |-> tag, ref |-> ref, rel |-> rel, style |-> style, text |-> text]

Library ==
    << Elem("img", R_logo, {}, <<>>, <<>>),
       Elem("img", R_logo_b, {}, <<>>, <<>>),
       Elem("img", R_data, {}, <<>>, <<>>),
       Elem("script", R_gone_js, {}, <<>>, <<>>),
       Elem("link", R_style, {"stylesheet"}, <<>>, <<>>),
       Elem("link", R_theme, {"stylesheet"}, <<>>, <<>>),
       Elem("link", R_bad, {"stylesheet"}, <<>>, <<>>),
       Elem("link", R_fonts, {"stylesheet"}, <<>>, <<>>),
       Elem("link", R_logo, {"icon"}, <<>>, <<>>),
       Elem("style", <<>>, {}, <<>>, <<Lit(<<"x">>), Url(G_bg)>>),
       Elem("style", <<>>, {}, <<>>, <<Url(G_bg), Url(G_gone), Url(G_font)>>),
       Elem("div", <<>>, {}, <<Url(G_frag), Url(G_data)>>, <<>>),
       Elem("div", <<>>, {}, <<Url(G_gone)>>, <<>>),
       Elem("img", R_up, {}, <<>>, <<>>),
       Elem("video", R_big, {}, <<>>, <<>>) >>

\* the documents a run may be given: up to MaxDocLen elements of the
\* library, in its order or in the opposite order
Reverse(q) == [i \in 1..Len(q) |-> q[Len(q) + 1 - i]]

Pick(ixs) == SelectSeq(Library, LAMBDA e : \E i \in ixs : Library[i] = e)

Docs ==
    UNION {{Pick(ixs), Reverse(Pick(ixs))} :
              ixs \in {x \in SUBSET (1..Len(Library)) :
                           Cardinality(x) \in 1..MaxDocLen}}

(***************************************************************************)
(* Page Processor: the order of the loops.                                 *)
(***************************************************************************)
tag_attr_pairs == <<"img", "script", "link", "source", "video", "audio">>

Indices(d) == [i \in 1..Len(d) |-> i]

\* soup.find_all(tag_name)
FindAll(d, tag_name) == SelectSeq(Indices(d), LAMBDA i : d[i].tag = tag_name)

RECURSIVE DirectFrom(_, _)
DirectFrom(d, k) ==
    IF k > Len(tag_attr_pairs) THEN <<>>
    ELSE FindAll(d, tag_attr_pairs[k]) \o DirectFrom(d, k + 1)

Phases == <<"direct", "style_tag", "style_attr", "stylesheets">>

PhaseOrder(phase, d) ==
    CASE phase = "direct" -> DirectFrom(d, 1)
      [] phase = "style_tag" -> FindAll(d, "style")
      [] phase = "style_attr" ->
            SelectSeq(Indices(d), LAMBDA i : d[i].style /= <<>>)
      [] phase = "stylesheets" ->
            SelectSeq(Indices(d),
                      LAMBDA i : d[i].tag = "link" /\ "stylesheet" \in d[i].rel)

PhaseIndex(phase) == CHOOSE k \in 1..Len(Phases) : Phases[k] = phase

\* the first loop from the k-th on that has an element to visit
RECURSIVE Enter(_, _)
Enter(k, d) ==
    IF k > Len(Phases) THEN [pc |-> "save", todo |-> <<>>]
    ELSE IF PhaseOrder(Phases[k], d) /= <<>>
    THEN [pc |-> Phases[k], todo |-> PhaseOrder(Phases[k], d)]
    ELSE Enter(k + 1, d)

Entered(s, e) == [s EXCEPT !.pc = e.pc, !.todo = e.todo]

\* the loop body is over: the next element, or the next loop
Continue(s) ==
    IF Tail(s.todo) /= <<>> THEN [s EXCEPT !.todo = Tail(s.todo)]
    ELSE Entered(s, Enter(PhaseIndex(s.pc) + 1, s.doc))

Visit(s) ==
    [s EXCEPT !.log = Append(@, Ev("VISIT", s.pc, Head(s.todo), <<>>, <<>>, FALSE))]

(***************************************************************************)
(* Page Processor: the loop bodies, each as the state it leaves.           *)
(***************************************************************************)
\* an exception leaves process_page: what was stored stays
Abort(s, r, idx) ==
    [s EXCEPT !.pc = "aborted", !.files = r.files, !.dirs = r.dirs,
              !.log = Append(r.log, Ev("ABORT", s.pc, idx, <<>>, <<>>, FALSE))]

\* the loop body without its try/except: the exception leaves process_page
FailedRaises(v, url, d) == Abort(v, d, Head(v.todo))

\* the except branch of a loop body: the failure is printed, the loop goes on
Failed(v, url, d) ==
    Continue([v EXCEPT !.files = d.files, !.dirs = d.dirs,
                       !.log = Append(d.log,
                                      Ev("FAIL", v.pc, Head(v.todo), url, <<>>, FALSE))])

\* 1) download_file has returned or raised
DirectDownloaded(v, i, full_url, local_path, d) ==
    IF ~d.ok THEN Failed(v, full_url, d)
    ELSE Continue([v EXCEPT !.files = d.files, !.dirs = d.dirs, !.log = d.log,
                            !.doc[i].ref = PublicUrl(local_path)])

\* 1) from the mapped local path on
DirectLocalised(v, i, full_url, local_path) ==
    IF PathExists(local_path, v.files, v.dirs)
    THEN Continue([v EXCEPT !.doc[i].ref = PublicUrl(local_path)])
    ELSE DirectDownloaded(v, i, full_url, local_path,
                          download_file(v, i, full_url, local_path))

\* 1) from the resolved URL on
DirectJoined(v, i, full_url) ==
    IF v.doc[i].ref = <<>> \/ ~should_download_asset(full_url)
    THEN Continue(v)
    ELSE DirectLocalised(v, i, full_url, asset_local_name(full_url, assets_dir))

\* 1) one tag of the direct-attribute loop
DirectStep(s) ==
    DirectJoined(Visit(s), Head(s.todo),
                 urljoin(s.start_url, s.doc[Head(s.todo)].ref))

\* 2) with a try/except as in 1) and 3): a failure is caught
StyleTagCaught(v, i, r) ==
    IF ~r.ok THEN Failed(v, <<>>, r)
    ELSE Continue([v EXCEPT !.files = r.files, !.dirs = r.dirs, !.log = r.log,
                            !.doc[i].text = r.css])

\* 2) rewrite_css_urls has returned or raised
StyleTagRewritten(v, i, r) ==
    IF ~r.ok THEN Abort(v, r, i)
    ELSE Continue([v EXCEPT !.files = r.files, !.dirs = r.dirs, !.log = r.log,
                            !.doc[i].text = r.css])

StyleTagVisited(v, i) ==
    IF v.doc[i].text = <<>> THEN Continue(v)
    ELSE StyleTagRewritten(v, i, rewrite_css_urls(v.doc[i].text, v.start_url, v, i))

\* 2) one <style> element
StyleTagStep(s) == StyleTagVisited(Visit(s), Head(s.todo))

StyleAttrRewritten(v, i, r) ==
    IF ~r.ok THEN Abort(v, r, i)
    ELSE Continue([v EXCEPT !.files = r.files, !.dirs = r.dirs, !.log = r.log,
                            !.doc[i].style = r.css])

StyleAttrVisited(v, i) ==
    StyleAttrRewritten(v, i, rewrite_css_urls(v.doc[i].style, v.start_url, v, i))

\* 2) one element with a style attribute
StyleAttrStep(s) == StyleAttrVisited(Visit(s), Head(s.todo))

\* 3) ensure_dir(local_css_path.parent) has returned or raised: the write
SheetStored(v, i, css_url, local_css_path, r, made) ==
    IF ~made.ok \/ Place(local_css_path) \in made.dirs
    THEN Failed(v, css_url, Result(FALSE, r.files, made.dirs, r.log))
    ELSE Continue([v EXCEPT
            !.files = Put(r.files, Place(local_css_path), Bytes(r.css)),
            !.dirs = made.dirs,
            !.log = Append(r.log,
                        Ev("WRITE", v.pc, i, css_url, Place(local_css_path),
                           PathExists(local_css_path, v.files, v.dirs))),
            !.doc[i].ref = PublicUrl(local_css_path)])

\* 3) rewrite_css_urls has returned or raised
SheetRewritten(v, i, css_url, local_css_path, r) ==
    IF ~r.ok THEN Failed(v, css_url, r)
    ELSE SheetStored(v, i, css_url, local_css_path, r,
                     ensure_dir(Parent(local_css_path), r.files, r.dirs))

\* 3) SESSION.get(css_url) has answered
SheetFetched(v, i, css_url, local_css_path, got, css_resp) ==
    IF ~css_resp.ok THEN Failed(v, css_url, got)
    ELSE SheetRewritten(v, i, css_url, local_css_path,
                        rewrite_css_urls(css_resp.text, css_url, got, i))

\* 3) from the mapped local path on
SheetLocalised(v, i, css_url, local_css_path) ==
    IF PathExists(local_css_path, v.files, v.dirs)
    THEN Continue([v EXCEPT !.doc[i].ref = PublicUrl(local_css_path)])
    ELSE SheetFetched(v, i, css_url, local_css_path,
                      [v EXCEPT !.log = Append(@,
                            Ev("GET", v.pc, i, css_url, Place(local_css_path),
                               PathExists(local_css_path, v.files, v.dirs)))],
                      Respond(css_url, v.log))

\* 3) from the resolved URL on
SheetJoined(v, i, css_url) ==
    IF v.doc[i].ref = <<>> \/ ~should_download_asset(css_url)
    THEN Continue(v)
    ELSE SheetLocalised(v, i, css_url, asset_local_name(css_url, assets_dir))

\* 3) one <link rel=stylesheet>
StylesheetStep(s) ==
    SheetJoined(Visit(s), Head(s.todo),
                urljoin(s.start_url, s.doc[Head(s.todo)].ref))

\* 4) the document is written
SaveStep(s) ==
    IF Place(out_html_path) \in s.dirs
    THEN Abort(s, s, 0)
    ELSE [s EXCEPT !.pc = "done",
                   !.files = Put(s.files, Place(out_html_path), Html(s.doc)),
                   !.log = Append(@, Ev("HTML", s.pc, 0, <<>>,
                                        Place(out_html_path), FALSE))]

\* the page has answered: the document is parsed
Parsed(s, url, made, got) ==
    Entered([s EXCEPT !.doc = s.served, !.dirs = made.dirs, !.log = <<got>>,
                      !.start_url = url],
            Enter(1, s.served))

\* without raise_for_status(): the answer is parsed whatever its status
FetchedAnyway(s, url, made, got) == Parsed(s, url, made, got)

\* the GET of the page raised
Unfetched(s, url, made, got) ==
    [s EXCEPT !.pc = "aborted", !.todo = <<>>, !.doc = <<>>,
              !.dirs = made.dirs,
              !.log = <<got, Ev("ABORT", "fetch", 0, url, <<>>, FALSE)>>,
              !.start_url = url]

Requested(s, url, made, got) ==
    IF url = U_page THEN Parsed(s, url, made, got)
    ELSE Unfetched(s, url, made, got)

\* process_page up to the parsed document: the output directory is made and
\* the page is fetched
FetchStep(s, url) ==
    Requested(s, url, ensure_dir(out_dir, s.files, s.dirs),
              Ev("GET", "fetch", 0, url, <<>>, FALSE))

\* the step a run in state s takes next
Step(s) ==
    CASE s.pc = "direct" -> DirectStep(s)
      [] s.pc = "style_tag" -> StyleTagStep(s)
      [] s.pc = "style_attr" -> StyleAttrStep(s)
      [] s.pc = "stylesheets" -> StylesheetStep(s)
      [] s.pc = "save" -> SaveStep(s)

\* the state in which the run that is in state s ends
RECURSIVE RunToEnd(_)
RunToEnd(s) == IF s.pc \in {"done", "aborted"} THEN s ELSE RunToEnd(Step(s))

(***************************************************************************)
(* The state.                                                              *)
(***************************************************************************)
VARIABLES
    pc,         \* where process_page is: idle (not started), the loop it is
                \* in, save, done, or aborted (an exception left it)
    start_url,  \* the argument of the current run
    served,     \* the document the server answers for U_page
    doc,        \* the parsed document (soup) of the current run
    todo,       \* the elements the current loop has still to visit
    files,      \* the files on disk
    dirs,       \* the directories on disk
    log,        \* what the current run did so far
    runs,       \* the runs started so far
    files0,     \* the files that were on disk when the current run started
    urlA, urlB, \* Local Path Mapper on its own: two URLs ...
    locA, locB, \* ... and the local paths they map to
    mapped      \* whether locA and locB have been computed

runVars == <<pc, start_url, served, doc, todo, files, dirs, log, runs, files0>>
vars == <<pc, start_url, served, doc, todo, files, dirs, log, runs, files0,
          urlA, urlB, locA, locB, mapped>>

Cur ==
    [pc |-> pc, start_url |-> start_url, served |-> served, doc |-> doc,
     todo |-> todo, files |-> files, dirs |-> dirs, log |-> log]

Apply(n) ==
    /\ pc' = n.pc
    /\ start_url' = n.start_url
    /\ doc' = n.doc
    /\ todo' = n.todo
    /\ files' = n.files
    /\ dirs' = n.dirs
    /\ log' = n.log
    /\ UNCHANGED <<served, urlA, urlB, locA, locB, mapped>>

\* the working directory and everything above it
InitDirs == {Take(Cwd, n) : n \in 0..Len(Cwd)}

InitRun ==
    /\ pc = "idle"
    /\ start_url = <<>>
    /\ doc = <<>>
    /\ todo = <<>>
    /\ files = EmptyFiles
    /\ dirs = InitDirs
    /\ log = <<>>
    /\ runs = 0
    /\ files0 = EmptyFiles

Init ==
    /\ InitRun
    /\ served \in Docs
    /\ urlA = <<>> /\ urlB = <<>> /\ locA = <<>> /\ locB = <<>>
    /\ mapped = FALSE

(***************************************************************************)
(* The actions of a run.                                                   *)
(***************************************************************************)
CanStart == pc \in {"idle", "done", "aborted"} /\ runs < MaxRuns

\* process_page is called and the page is fetched and parsed
FetchRootOk ==
    /\ CanStart
    /\ Apply(FetchStep(Cur, U_page))
    /\ runs' = runs + 1
    /\ files0' = files

\* process_page is called and the GET of the page raises
FetchRootFail ==
    /\ CanStart
    /\ Apply(FetchStep(Cur, U_gone))
    /\ runs' = runs + 1
    /\ files0' = files

InRun(n) == Apply(n) /\ UNCHANGED <<runs, files0>>

\* 1) the body of the direct-attribute loop, for one tag
DirectTag == pc = "direct" /\ InRun(DirectStep(Cur))

\* 2) the body of the <style> loop, for one element
StyleTag == pc = "style_tag" /\ InRun(StyleTagStep(Cur))

\* 2) the body of the style-attribute loop, for one element
StyleAttr == pc = "style_attr" /\ InRun(StyleAttrStep(Cur))

\* 3) the body of the stylesheet loop, for one link
Stylesheet == pc = "stylesheets" /\ InRun(StylesheetStep(Cur))

\* 4) the document is saved
SaveHtml == pc = "save" /\ InRun(SaveStep(Cur))

Next ==
    \/ FetchRootOk
    \/ FetchRootFail
    \/ DirectTag
    \/ StyleTag
    \/ StyleAttr
    \/ Stylesheet
    \/ SaveHtml

Spec == Init /\ [][Next]_vars

(***************************************************************************)
(* The Local Path Mapper on its own: two URLs of one scheme, host and      *)
(* path, with any two query strings, are mapped.                           *)
(***************************************************************************)
PathChars == {"a", ".", "/"}
QueryChars == {"v", "=", "_"}

Texts(chars, n) == UNION {[1..k -> chars] : k \in 0..n}

\* the path "/" followed by up to MaxPathLen - 1 characters
PathTexts == {<<"/">> \o t : t \in Texts(PathChars, MaxPathLen - 1)}

QueryTexts == Texts(QueryChars, MaxQueryLen)

WithQuery(path, q) ==
    Origin_a \o path \o (IF q = <<>> THEN <<>> ELSE <<"?">> \o q)

InitMap ==
    /\ InitRun
    /\ served = <<>>
    /\ \E path \in PathTexts : \E q1, q2 \in QueryTexts :
          /\ urlA = WithQuery(path, q1)
          /\ urlB = WithQuery(path, q2)
    /\ locA = <<>> /\ locB = <<>>
    /\ mapped = FALSE

MapUrls ==
    /\ ~mapped
    /\ mapped' = TRUE
    /\ locA' = asset_local_name(urlA, assets_dir)
    /\ locB' = asset_local_name(urlB, assets_dir)
    /\ UNCHANGED <<urlA, urlB>>
    /\ UNCHANGED runVars

SpecMap == InitMap /\ [][MapUrls]_vars

(***************************************************************************)
(* What the properties below speak of.                                     *)
(***************************************************************************)
Last(q) == q[Len(q)]

Events(op) == {k \in 1..Len(log) : log[k].op = op}

DirectTags == {tag_attr_pairs[k] : k \in 1..Len(tag_attr_pairs)}

IsSheet(e) == e.tag = "link" /\ "stylesheet" \in e.rel

\* the URL the src or href of element i of the served page resolves to, and
\* the local path it is mapped to
Resolved(i) == urljoin(U_page, served[i].ref)
MappedPath(i) == asset_local_name(Resolved(i), assets_dir)

\* element i is a tag of the direct-attribute list whose reference the
\* classifier accepts
Accepted(i) ==
    /\ served[i].tag \in DirectTags
    /\ served[i].ref /= <<>>
    /\ should_download_asset(Resolved(i))

HtmlKey == Place(out_html_path)

\* path lies inside the directory root
Inside(path, root) ==
    /\ Len(Place(path)) > Len(Place(root))
    /\ Take(Place(path), Len(Place(root))) = Place(root)

\* a URL has a rejected scheme or a path without an asset extension
RejectedRef(url) ==
    \/ urlparse(url, <<>>).scheme \in RejectedSchemes
    \/ ~HasAssetExtension(Lower(urlparse(url, <<>>).path))

\* the step from the current state to the next holds a GET that is answered
\* with an error or a failure status, or a write that fails
StepRaises ==
    \E k \in (Len(log) + 1)..Len(log') :
        \/ /\ log'[k].op = "GET"
           /\ ~Respond(log'[k].url, SubSeq(log', 1, k - 1)).ok
        \/ /\ log'[k].op = "WRITE"
           /\ Respond(log'[k].url, <<>>).heavy

\* the loops that come after the loop ph, and the saving of the document
LaterThan(ph) == {Phases[k] : k \in (PhaseIndex(ph) + 1)..Len(Phases)} \cup {"save"}

(***************************************************************************)
(* C1.  Direct attributes are rewritten to the mapped public path.         *)
(***************************************************************************)
\* the download of the reference of tag i succeeded in this run
Stored(i) ==
    \E k \in Events("WRITE") :
        /\ log[k].idx = i
        /\ log[k].url = Resolved(i)
        /\ ~\E f \in Events("FAIL") : log[f].idx = i /\ log[f].at = log[k].at

DirectStored(i) ==
    \E k \in Events("WRITE") :
        /\ log[k].idx = i
        /\ log[k].at = "direct"
        /\ log[k].url = Resolved(i)
        /\ ~\E f \in Events("FAIL") : log[f].idx = i /\ log[f].at = "direct"

\* C1: once process_page has completed, every tag of the direct-attribute
\* list whose resolved reference is accepted, and whose download succeeded
\* or whose mapped file was there before, has its attribute equal to
\* public_asset_prefix + "/" + the path mapped from its original resolved
\* URL relative to assets_dir; a file is at that path, and it holds the
\* bytes served for the URL when the direct download stored it in this run.
C1_AttributesRewritten ==
    pc = "done" =>
        \A i \in 1..Len(served) :
            (Accepted(i) /\ (Stored(i) \/ Place(MappedPath(i)) \in DOMAIN files0))
            => /\ doc[i].ref = PublicUrl(MappedPath(i))
               /\ Place(MappedPath(i)) \in DOMAIN files
               /\ DirectStored(i)
                    => files[Place(MappedPath(i))] = Bytes(Body(Resolved(i)))

(***************************************************************************)
(* C2.  External stylesheets are stored rewritten.                         *)
(***************************************************************************)
NoFailure == \A k \in 1..Len(log) : log[k].op \notin {"FAIL", "ABORT"}

\* what rewrite_css_urls returns for stylesheet i with its URL as base
Rewritten(i) == rewrite_css_urls(Body(Resolved(i)), Resolved(i), Cur, i)

\* C2: when no fetch of the run failed, every stylesheet link with an
\* accepted reference whose local file was not there when the run started
\* has, at its mapped path, the CSS that rewrite_css_urls returns for it with
\* the stylesheet URL as base, and the assets this CSS references are on
\* disk (rewriting it again fetches nothing).
C2_StylesheetsRewritten ==
    (pc = "done" /\ NoFailure) =>
        \A i \in 1..Len(served) :
            (/\ IsSheet(served[i])
             /\ Accepted(i)
             /\ Place(MappedPath(i)) \notin DOMAIN files0)
            => /\ Place(MappedPath(i)) \in DOMAIN files
               /\ files[Place(MappedPath(i))] = Bytes(Rewritten(i).css)
               /\ Rewritten(i).log = log

(***************************************************************************)
(* C3.  Skip if exists.                                                    *)
(***************************************************************************)
AssetEvents ==
    {k \in 1..Len(log) : log[k].op \in {"GET", "WRITE"} /\ log[k].at /= "fetch"}

\* no GET and no write for a path that held a file when the reference was met
C3_NotWhenPresent == \A k \in AssetEvents : ~log[k].had

\* each path is written at most once per run
C3_WrittenOnce ==
    \A j, k \in Events("WRITE") : j /= k => log[j].key /= log[k].key

\* a run fetches nothing that was on disk when it started
C3_NothingAgain ==
    \A k \in AssetEvents : log[k].op = "GET" => log[k].key \notin DOMAIN files0

\* C3: in every phase and in any sequence of runs, no GET is issued and no
\* write is made for an asset whose mapped path holds a file when the
\* reference is met; each path is written at most once per run, and a later
\* run fetches nothing an earlier run stored.
C3_SkipIfExists == C3_NotWhenPresent /\ C3_WrittenOnce /\ C3_NothingAgain

(***************************************************************************)
(* C4.  Failures of the direct-attribute and stylesheet loops are caught.  *)
(***************************************************************************)
C4Step ==
    (pc \in {"direct", "stylesheets"} /\ StepRaises) =>
        /\ doc' = doc
        /\ pc' /= "aborted"
        /\ IF Tail(todo) /= <<>>
           THEN pc' = pc /\ todo' = Tail(todo)
           ELSE pc' \in LaterThan(pc)

C4Always ==
    /\ pc = "aborted" => Last(log).at \notin {"direct", "stylesheets"}
    /\ pc = "done" => HtmlKey \in DOMAIN files /\ files[HtmlKey] = Html(doc)

\* C4: a step of the direct-attribute loop or of the stylesheet loop in
\* which a GET fails or a write fails (the stylesheet's own or one of an
\* asset embedded in it) leaves every attribute as it was, does not abort
\* the run and goes on with the next tag, stylesheet or loop; no run is
\* aborted in these two loops, and a run that is done has written the HTML.
C4_FailuresContained == []C4Always /\ [][C4Step]_vars

\* a run is done although a download failed in the direct-attribute loop
\* and a stylesheet failed later, after which more was visited
C4_Witness ==
    /\ pc = "done"
    /\ \E f \in Events("FAIL") : log[f].at = "direct"
    /\ \E f \in Events("FAIL") :
          /\ log[f].at = "stylesheets"
          /\ \E g \in Events("GET") : log[g].at = "stylesheets" /\ log[g].idx = log[f].idx
                                      /\ log[g].url /= Resolved(log[f].idx)
    /\ \E f \in Events("FAIL") : \E v \in Events("VISIT") : v > f

(***************************************************************************)
(* C5.  A failure inside inline CSS aborts the run.                        *)
(***************************************************************************)
C5Step ==
    (pc \in {"style_tag", "style_attr"} /\ StepRaises) =>
        /\ pc' = "aborted"
        /\ doc' = doc
        /\ \A k \in DOMAIN files : k \in DOMAIN files' /\ files'[k] = files[k]
        /\ \A k \in (Len(log) + 1)..Len(log') :
              log'[k].op = "WRITE" => log'[k].key \in DOMAIN files'

C5Always ==
    (pc = "aborted" /\ Last(log).at \in {"style_tag", "style_attr"}) =>
        /\ Last(log).op = "ABORT"
        /\ Events("HTML") = {}
        /\ HtmlKey \in DOMAIN files
              => HtmlKey \in DOMAIN files0 /\ files[HtmlKey] = files0[HtmlKey]
        /\ \A k \in Events("WRITE") : log[k].key \in DOMAIN files
        /\ \A v \in Events("VISIT") :
              /\ log[v].at \notin LaterThan(Last(log).at)
              /\ log[v].at = Last(log).at
                    => \A j \in 2..Len(todo) : log[v].idx /= todo[j]

\* C5: a step of the <style> loop or of the style-attribute loop in which a
\* download fails aborts the run; the files on disk stay, the ones written
\* in this step included; in the aborted run no later element of the loop
\* and no later loop is visited, and the HTML file is not written.
C5_InlineFailureAborts == []C5Always /\ [][C5Step]_vars

\* a run was aborted in the <style> loop after it had written an asset, with
\* a stylesheet link still to come
C5_Witness ==
    /\ pc = "aborted"
    /\ Last(log).at = "style_tag"
    /\ Events("WRITE") /= {}
    /\ \E i \in 1..Len(served) : IsSheet(served[i])

(***************************************************************************)
(* C6, C7.  Local Path Mapper.                                             *)
(***************************************************************************)
\* C6: for every absolute asset URL, with "." or ".." segments or repeated
\* slashes in its path too, asset_local_name returns a path that lies
\* inside assets_root.
C6_InsideAssetsRoot == mapped => Inside(locA, assets_dir)

\* C7: two URLs of the same scheme, host and path with different query
\* strings (one of them may have none) are mapped to two distinct local
\* paths.
C7_QueryDisambiguation ==
    (mapped /\ urlparse(urlA, <<>>).query /= urlparse(urlB, <<>>).query)
        => locA /= locB

(***************************************************************************)
(* C8.  Rejected references are neither fetched nor rewritten.             *)
(***************************************************************************)
C8_NoGetOfRejected ==
    \A k \in Events("GET") : log[k].at /= "fetch" => ~RejectedRef(log[k].url)

C8_RefKept ==
    \A i \in 1..Len(doc) :
        (served[i].tag \in DirectTags /\ served[i].ref /= <<>>
            /\ RejectedRef(Resolved(i)))
        => doc[i].ref = served[i].ref

\* the URL a url(...) match of inline CSS resolves to
ResolvedGroup(t) == urljoin(U_page, Strip(Strip(t.s, Whitespace), Quotes))

\* a style attribute that holds rejected references only
HoldsRejected(css) ==
    /\ \E k \in 1..Len(css) : css[k].t = "url"
    /\ \A k \in 1..Len(css) : css[k].t = "url" => RejectedRef(ResolvedGroup(css[k]))

C8_StyleKept ==
    pc = "done" =>
        \A i \in 1..Len(doc) :
            HoldsRejected(served[i].style) => doc[i].style = served[i].style

\* C8 as stated: in every phase no GET is issued for a reference whose
\* resolved URL has the scheme data, mailto or javascript or a path without
\* an asset extension, and an HTML attribute that holds such a reference
\* (src, href or style) has the same value after process_page as before.
C8_RejectedUntouched == C8_NoGetOfRejected /\ C8_RefKept /\ C8_StyleKept

\* C8, amended: in every phase no GET is issued for such a reference, and a
\* src or href attribute of a tag of the direct-attribute list that holds
\* such a reference keeps its value.
C8_RejectedNotFetched == C8_NoGetOfRejected /\ C8_RefKept

\* a run is done on a page with a data: reference whose path ends with an
\* asset extension, and with assets that were fetched
C8_Witness ==
    /\ pc = "done"
    /\ \E i \in 1..Len(doc) :
          /\ served[i].ref /= <<>>
          /\ urlparse(Resolved(i), <<>>).scheme \in RejectedSchemes
          /\ HasAssetExtension(Lower(urlparse(Resolved(i), <<>>).path))
    /\ \E k \in Events("GET") : log[k].at /= "fetch"

(***************************************************************************)
(* C9.  The HTML is written once, last; a failed root fetch writes nothing.*)
(***************************************************************************)
\* every element of every loop has been visited
AllVisited ==
    \A k \in 1..Len(Phases) :
        \A j \in 1..Len(PhaseOrder(Phases[k], served)) :
            \E v \in Events("VISIT") :
                /\ log[v].at = Phases[k]
                /\ log[v].idx = PhaseOrder(Phases[k], served)[j]

C9_HtmlLast ==
    \A k \in Events("HTML") : k = Len(log) /\ pc = "done" /\ AllVisited

C9_RootFailure ==
    (pc /= "idle" /\ start_url /= U_page) =>
        /\ pc = "aborted"
        /\ files = files0
        /\ \A k \in 1..Len(log) :
              /\ log[k].op \in {"GET", "ABORT"}
              /\ log[k].at = "fetch"

\* C9: in a run the HTML file is written at most once and as the last
\* action, after every element of the three phases has been visited; a run
\* whose root GET fails is aborted before any asset is fetched, and it
\* writes neither the HTML file nor an asset file.
C9_HtmlOnceAtTheEnd == C9_HtmlLast /\ C9_RootFailure

\* a run wrote the HTML last, and the next run failed at the root and left
\* the files as they were
C9_Witness ==
    /\ runs = 2
    /\ pc = "aborted"
    /\ start_url = U_gone
    /\ HtmlKey \in DOMAIN files
    /\ \E k \in DOMAIN files : k /= HtmlKey

(***************************************************************************)
(* C10.  Order independence.                                               *)
(***************************************************************************)
\* the files below assets and wherever else assets were stored
AssetsTree(fs) == [k \in DOMAIN fs \ {HtmlKey} |-> fs[k]]

\* the run of the same page with its elements in the opposite order, from
\* an empty output directory
OtherOrder ==
    RunToEnd(FetchStep([pc |-> "idle", start_url |-> <<>>,
                        served |-> Reverse(served), doc |-> <<>>,
                        todo |-> <<>>, files |-> EmptyFiles,
                        dirs |-> InitDirs, log |-> <<>>],
                       U_page))

\* C10: two runs from the same output directory against the same server,
\* on documents that reference the same asset URLs in a different order,
\* end with the same assets tree.
C10_OrderIndependent ==
    (pc = "done" /\ runs = 1 /\ OtherOrder.pc = "done")
        => AssetsTree(OtherOrder.files) = AssetsTree(files)

=============================================================================
